---- MODULE Spec2Model ----
(***************************************************************************)
(* WolfVue: the detection-stream classification core of src/WolfVue.py.    *)
(*                                                                         *)
(* analyze_detections(frame_data, class_names) is a pure function of a     *)
(* frame sequence; it dispatches a one-frame sequence to                   *)
(* analyze_image_detections and handles every other length itself (the    *)
(* "video" path).  The model computes both the way the source does and     *)
(* applies them to a bounded family of frame sequences.                    *)
(*                                                                         *)
(* Representation                                                          *)
(*   detection   [class_name |-> STRING, confidence |-> hundredths]        *)
(*               (class_id and bbox are never read by the analysis)        *)
(*   frame       [detections |-> sequence of detections]                   *)
(*               (frame_idx and timestamp are never read by the analysis)  *)
(*   class_names the sequence of class_names.values(), in key order        *)
(*   dict        a sequence of [k, v] entries in insertion order           *)
(*   None / str  an optional name: << >> is None, <<s>> is the string s    *)
(*   float n/d   a quotient of two integers: the reduced fraction          *)
(*               [num, den] (two small-integer quotients are the same      *)
(*               double exactly when they are the same fraction)           *)
(*   confidence  an integer number of hundredths (0.35 is 35)              *)
(***************************************************************************)
EXTENDS Integers, Sequences, FiniteSets, TLC

VARIABLES
    frame_data,     \* the frame sequence handed to analyze_detections
    class_names,    \* the class_names map handed to analyze_detections
    pc,             \* "call": about to call, "done": the call has ended
    result,         \* the outcome of the call (NoResult before it)
    output_folder,  \* the base path of the sorted output
    taxonomy,       \* category -> species, as handed to get_species_folder_path
    folders,        \* the directories that exist under output_folder
    classification, \* the label last resolved to a folder (None before)
    target_folder,  \* the path it resolved to (None before)
    resolved,       \* every [species, path] pair resolved so far
    video_files,    \* the videos of the input folder, in processing order
    image_files,    \* the images of the input folder, in processing order
    file_index,     \* the number of files taken up so far
    results,        \* the results list of process_all_files
    errors,         \* the files reported as skipped, in order
    copied,         \* the copies made by sort_file
    analyzed,       \* every call of analyze_detections: [file, frame_data]
    report,         \* the results written by generate_summary_report (None before)
    calls           \* a series of calls: [frame_data, class_names, result] of each

coreVars == <<frame_data, class_names, pc, result>>

pathVars == <<output_folder, taxonomy, folders, classification, target_folder, resolved>>

batchVars == <<video_files, image_files, file_index, results, errors, copied, analyzed, report>>

vars == <<coreVars, pathVars, batchVars, calls>>

---------------------------------------------------------------------------
(* Configuration, src/WolfVue.py lines 41-64.                              *)

\* DOMINANT_SPECIES_THRESHOLD = 0.9, as the fraction 9/10.
DOMINANT_SPECIES_THRESHOLD == [num |-> 9, den |-> 10]

\* CONFIDENCE_THRESHOLD = 0.40, in hundredths.
CONFIDENCE_THRESHOLD == 40

MAX_SPECIES_TRANSITIONS == 5

CONSECUTIVE_EMPTY_FRAMES == 15

\* IMAGE_CONFIDENCE_THRESHOLD = 0.65, in hundredths.
IMAGE_CONFIDENCE_THRESHOLD == 65

IMAGE_MIN_DETECTIONS == 1

\* Confidences, in hundredths.
IMAGE_MULTI_SPECIES_THRESHOLD == 60

IMAGE_UNSORTED_MIN_CONFIDENCE == 35

IMAGE_UNSORTED_MAX_CONFIDENCE == 65

PREDATORS == <<"Cougar", "Lynx", "Wolf", "Coyote", "Fox", "Bear">>

PREY == <<"WhiteTail", "MuleDeer", "Elk", "Moose">>

\* The literal 0.1 of the significant-species test (line 854), as 1/10.
SIGNIFICANT_FRAME_SHARE == [num |-> 1, den |-> 10]

---------------------------------------------------------------------------
(* Python values.                                                          *)

None == << >>

Some(s) == <<s>>

\* Truthiness of an optional string: None and "" are falsy.
Truthy(o) == o # None /\ o[1] # ""

Range(s) == {s[i] : i \in 1..Len(s)}

RECURSIVE Gcd(_, _)
Gcd(a, b) == IF b = 0 THEN a ELSE Gcd(b, a % b)

\* n / d for integers n >= 0, d > 0.
Ratio(n, d) == LET g == Gcd(n, d) IN [num |-> n \div g, den |-> d \div g]

\* a >= b for two fractions.
RatioGeq(a, b) == a.num * b.den >= b.num * a.den

RatioGt(a, b) == a.num * b.den > b.num * a.den

(* dict: a sequence of [k, v] entries, in insertion order.                 *)
DictKeys(d) == [i \in 1..Len(d) |-> d[i].k]

DictHas(d, key) == \E i \in 1..Len(d) : d[i].k = key

DictGet(d, key) == d[CHOOSE i \in 1..Len(d) : d[i].k = key].v

\* d[key] = val: replaces the value in place, or appends a new entry.
DictSet(d, key, val) ==
    IF DictHas(d, key)
    THEN [i \in 1..Len(d) |-> IF d[i].k = key THEN [k |-> key, v |-> val] ELSE d[i]]
    ELSE Append(d, [k |-> key, v |-> val])

\* {name: val for name in names}: a repeated name keeps its first position.
RECURSIVE DictFromKeys(_, _)
DictFromKeys(names, val) ==
    IF names = << >> THEN << >>
    ELSE DictSet(DictFromKeys(SubSeq(names, 1, Len(names) - 1), val),
                 names[Len(names)], val)

DictMaxKey_LastOnTie(d) ==
    LET i == CHOOSE i \in 1..Len(d) :
                 /\ \A j \in 1..Len(d) : d[j].v <= d[i].v
                 /\ \A j \in (i + 1)..Len(d) : d[j].v < d[i].v
    IN  d[i].k

\* max(d, key=d.get) for integer values: the first key holding the maximum.
DictMaxKey(d) ==
    LET i == CHOOSE i \in 1..Len(d) :
                 /\ \A j \in 1..Len(d) : d[j].v <= d[i].v
                 /\ \A j \in 1..(i - 1) : d[j].v < d[i].v
    IN  d[i].k

RECURSIVE SumValues(_)
SumValues(d) == IF d = << >> THEN 0 ELSE d[1].v + SumValues(Tail(d))

\* sorted(items, key=..., reverse=True), keys[j] being the key of items[j], a
\* fraction: the sort is stable, so items with equal keys keep their order.
RECURSIVE SortedDesc(_, _)
SortedDesc(items, keys) ==
    IF items = << >> THEN << >>
    ELSE LET n    == Len(items)
             rest == SortedDesc(SubSeq(items, 1, n - 1), SubSeq(keys, 1, n - 1))
             \* the last item goes behind every earlier item whose key is not smaller
             pos  == Cardinality({j \in 1..(n - 1) : ~RatioGt(keys[n], keys[j])})
         IN  SubSeq(rest, 1, pos) \o <<items[n]>> \o SubSeq(rest, pos + 1, n - 1)

---------------------------------------------------------------------------
(* The video path of analyze_detections, lines 753-887.                    *)

\* Lines 764 and 777: the cluster that is not open.
EmptyCluster == [species |-> None, start |-> 0, end |-> 0, frames |-> 0]

InitialCounters_Leaky(names) ==
    [raised                   |-> FALSE,
     frames_with_detections   |-> 0,
     species_counts           |-> DictFromKeys(names, 0),
     species_frames           |-> DictFromKeys(names, << >>),
     current_species          |-> None,
     species_transitions      |-> IF result.status = "returned"
                                  THEN result.value.species_transitions ELSE 0,
     frames_without_detection |-> 0,
     clusters                 |-> << >>,
     current_cluster          |-> EmptyCluster]

\* Lines 755-764: the counters before the first frame.
InitialCounters(names) ==
    [raised                   |-> FALSE,
     frames_with_detections   |-> 0,
     species_counts           |-> DictFromKeys(names, 0),
     species_frames           |-> DictFromKeys(names, << >>),
     current_species          |-> None,
     species_transitions      |-> 0,
     frames_without_detection |-> 0,
     clusters                 |-> << >>,
     current_cluster          |-> EmptyCluster]

EmptyFrameStep_Eager(st, i) ==
    LET fwd == st.frames_without_detection + 1
    IN  IF fwd >= 1 /\ Truthy(st.current_cluster.species)
        THEN [st EXCEPT !.frames_without_detection = fwd,
                        !.clusters = Append(@, [st.current_cluster EXCEPT !.end = i - fwd]),
                        !.current_cluster = EmptyCluster]
        ELSE [st EXCEPT !.frames_without_detection = fwd]

EmptyFrameStep_Late(st, i) ==
    LET fwd == st.frames_without_detection + 1
    IN  IF fwd > CONSECUTIVE_EMPTY_FRAMES /\ Truthy(st.current_cluster.species)
        THEN [st EXCEPT !.frames_without_detection = fwd,
                        !.clusters = Append(@, [st.current_cluster EXCEPT !.end = i - fwd]),
                        !.current_cluster = EmptyCluster]
        ELSE [st EXCEPT !.frames_without_detection = fwd]

EmptyFrameStep_Forgets(st, i) ==
    LET fwd == st.frames_without_detection + 1
    IN  IF fwd >= CONSECUTIVE_EMPTY_FRAMES /\ Truthy(st.current_cluster.species)
        THEN [st EXCEPT !.frames_without_detection = fwd,
                        !.clusters = Append(@, [st.current_cluster EXCEPT !.end = i - fwd]),
                        !.current_cluster = EmptyCluster,
                        !.current_species = None]
        ELSE [st EXCEPT !.frames_without_detection = fwd]

\* Lines 770-779: a frame without detections.
EmptyFrameStep(st, i) ==
    LET fwd == st.frames_without_detection + 1
    IN  IF fwd >= CONSECUTIVE_EMPTY_FRAMES /\ Truthy(st.current_cluster.species)
        THEN [st EXCEPT !.frames_without_detection = fwd,
                        !.clusters = Append(@, [st.current_cluster EXCEPT !.end = i - fwd]),
                        !.current_cluster = EmptyCluster]
        ELSE [st EXCEPT !.frames_without_detection = fwd]

\* Lines 786-794: the tally of one frame's detections, d = the next detection
\* to count.  species_counts[species] += 1 raises KeyError for a class name
\* that is no value of class_names, and the call ends there.
RECURSIVE CountDetections(_, _, _, _)
CountDetections(acc, detections, d, i) ==
    IF d > Len(detections) \/ acc.raised THEN acc
    ELSE LET species == detections[d].class_name
         IN  IF ~DictHas(acc.species_counts, species)
             THEN [acc EXCEPT !.raised = TRUE]
             ELSE LET frames == DictGet(acc.species_frames, species)
                  IN  CountDetections(
                        [acc EXCEPT
                           !.species_counts =
                               DictSet(@, species, DictGet(@, species) + 1),
                           !.species_frames =
                               IF i \in Range(frames) THEN @
                               ELSE DictSet(@, species, Append(frames, i)),
                           !.frame_species =
                               IF DictHas(@, species)
                               THEN DictSet(@, species, DictGet(@, species) + 1)
                               ELSE DictSet(@, species, 1)],
                        detections, d + 1, i)

TrackFrame_EndAtChange(st, frame_species, i) ==
    IF frame_species = << >> THEN st
    ELSE LET dominant_species == DictMaxKey(frame_species)
             transitions ==
                 IF Truthy(st.current_species)
                    /\ Some(dominant_species) # st.current_species
                 THEN st.species_transitions + 1
                 ELSE st.species_transitions
             cc == st.current_cluster
         IN  IF cc.species # Some(dominant_species)
             THEN [st EXCEPT
                     !.species_transitions = transitions,
                     !.current_species = Some(dominant_species),
                     !.clusters = IF Truthy(cc.species)
                                  THEN Append(@, [cc EXCEPT !.end = i])
                                  ELSE @,
                     !.current_cluster = [species |-> Some(dominant_species),
                                          start |-> i, end |-> i, frames |-> 1]]
             ELSE [st EXCEPT
                     !.species_transitions = transitions,
                     !.current_species = Some(dominant_species),
                     !.current_cluster = [cc EXCEPT !.end = i,
                                                    !.frames = cc.frames + 1]]

TrackFrame_CountsFirst(st, frame_species, i) ==
    IF frame_species = << >> THEN st
    ELSE LET dominant_species == DictMaxKey(frame_species)
             transitions ==
                 IF Some(dominant_species) # st.current_species
                 THEN st.species_transitions + 1
                 ELSE st.species_transitions
             cc == st.current_cluster
         IN  IF cc.species # Some(dominant_species)
             THEN [st EXCEPT
                     !.species_transitions = transitions,
                     !.current_species = Some(dominant_species),
                     !.clusters = IF Truthy(cc.species)
                                  THEN Append(@, [cc EXCEPT !.end = i - 1])
                                  ELSE @,
                     !.current_cluster = [species |-> Some(dominant_species),
                                          start |-> i, end |-> i, frames |-> 1]]
             ELSE [st EXCEPT
                     !.species_transitions = transitions,
                     !.current_species = Some(dominant_species),
                     !.current_cluster = [cc EXCEPT !.end = i,
                                                    !.frames = cc.frames + 1]]

\* Lines 796-820: transitions and clusters, given the frame's tally.
TrackFrame(st, frame_species, i) ==
    IF frame_species = << >> THEN st
    ELSE LET dominant_species == DictMaxKey(frame_species)
             transitions ==
                 IF Truthy(st.current_species)
                    /\ Some(dominant_species) # st.current_species
                 THEN st.species_transitions + 1
                 ELSE st.species_transitions
             cc == st.current_cluster
         IN  IF cc.species # Some(dominant_species)
             THEN [st EXCEPT
                     !.species_transitions = transitions,
                     !.current_species = Some(dominant_species),
                     !.clusters = IF Truthy(cc.species)
                                  THEN Append(@, [cc EXCEPT !.end = i - 1])
                                  ELSE @,
                     !.current_cluster = [species |-> Some(dominant_species),
                                          start |-> i, end |-> i, frames |-> 1]]
             ELSE [st EXCEPT
                     !.species_transitions = transitions,
                     !.current_species = Some(dominant_species),
                     !.current_cluster = [cc EXCEPT !.end = i,
                                                    !.frames = cc.frames + 1]]

\* The detections without those of a species already met in the frame.
RECURSIVE FirstPerSpecies(_, _)
FirstPerSpecies(detections, n) ==
    IF n = 0 THEN << >>
    ELSE LET before == FirstPerSpecies(detections, n - 1)
         IN  IF \E e \in 1..(n - 1) : detections[e].class_name = detections[n].class_name
             THEN before
             ELSE Append(before, detections[n])

DetectionFrameStep_PerFrame(st, detections, i) ==
    LET acc == CountDetections(
                   [raised         |-> FALSE,
                    species_counts |-> st.species_counts,
                    species_frames |-> st.species_frames,
                    frame_species  |-> << >>],
                   FirstPerSpecies(detections, Len(detections)), 1, i)
    IN  IF acc.raised THEN [st EXCEPT !.raised = TRUE]
        ELSE TrackFrame([st EXCEPT
                           !.frames_with_detections = @ + 1,
                           !.frames_without_detection = 0,
                           !.species_counts = acc.species_counts,
                           !.species_frames = acc.species_frames],
                        acc.frame_species, i)

DetectionFrameStep_Refiltered(st, detections, i) ==
    LET kept == SelectSeq(detections, LAMBDA d : d.confidence >= 40)
        acc  == CountDetections(
                    [raised         |-> FALSE,
                     species_counts |-> st.species_counts,
                     species_frames |-> st.species_frames,
                     frame_species  |-> << >>],
                    kept, 1, i)
    IN  IF kept = << >> THEN EmptyFrameStep(st, i)
        ELSE IF acc.raised THEN [st EXCEPT !.raised = TRUE]
        ELSE TrackFrame([st EXCEPT
                           !.frames_with_detections = @ + 1,
                           !.frames_without_detection = 0,
                           !.species_counts = acc.species_counts,
                           !.species_frames = acc.species_frames],
                        acc.frame_species, i)

\* Lines 781-820: a frame with detections.
DetectionFrameStep(st, detections, i) ==
    LET acc == CountDetections(
                   [raised         |-> FALSE,
                    species_counts |-> st.species_counts,
                    species_frames |-> st.species_frames,
                    frame_species  |-> << >>],
                   detections, 1, i)
    IN  IF acc.raised THEN [st EXCEPT !.raised = TRUE]
        ELSE TrackFrame([st EXCEPT
                           !.frames_with_detections = @ + 1,
                           !.frames_without_detection = 0,
                           !.species_counts = acc.species_counts,
                           !.species_frames = acc.species_frames],
                        acc.frame_species, i)

\* Lines 767-820: the loop, n = the number of frames already handled; frame
\* index i of the source is position i + 1 of the sequence.
RECURSIVE AnalyzeFrames(_, _, _)
AnalyzeFrames(st, frames, n) ==
    IF n >= Len(frames) \/ st.raised THEN st
    ELSE LET detections == frames[n + 1].detections
         IN  AnalyzeFrames(IF detections = << >>
                           THEN EmptyFrameStep(st, n)
                           ELSE DetectionFrameStep(st, detections, n),
                           frames, n + 1)

FinalClusters_Dropped(st) == st.clusters

\* Lines 822-824: the cluster still open after the last frame.
FinalClusters(st) ==
    IF Truthy(st.current_cluster.species)
    THEN Append(st.clusters, st.current_cluster)
    ELSE st.clusters

SpeciesPercentages_ZeroFilled(species_counts) ==
    LET total_detections == SumValues(species_counts)
    IN  [j \in 1..Len(species_counts) |->
            [k |-> species_counts[j].k,
             v |-> IF total_detections > 0
                   THEN Ratio(species_counts[j].v, total_detections)
                   ELSE Ratio(0, 1)]]

\* Lines 826-834.
SpeciesPercentages(species_counts) ==
    LET total_detections == SumValues(species_counts)
    IN  IF total_detections > 0
        THEN LET kept == SelectSeq(species_counts, LAMBDA e : e.v > 0)
             IN  [j \in 1..Len(kept) |->
                     [k |-> kept[j].k, v |-> Ratio(kept[j].v, total_detections)]]
        ELSE << >>

\* Lines 836-840.
SpeciesFramePercentages(species_frames, total_frames) ==
    LET kept == SelectSeq(species_frames, LAMBDA e : e.v # << >>)
    IN  [j \in 1..Len(kept) |->
            [k |-> kept[j].k, v |-> Ratio(Len(kept[j].v), total_frames)]]

SortClusters_Temporal(clusters) == clusters

\* Line 843.
SortClusters(clusters) ==
    SortedDesc(clusters, [j \in 1..Len(clusters) |-> [num |-> clusters[j].frames, den |-> 1]])

\* Line 846: None for an empty species_counts.
DominantSpecies(species_counts) ==
    IF species_counts # << >> THEN Some(DictMaxKey(species_counts)) ELSE None

PredatorPreyConflict_All(species_counts) ==
    LET has_predator == \A p \in 1..Len(PREDATORS) :
                            DictHas(species_counts, PREDATORS[p])
                                => DictGet(species_counts, PREDATORS[p]) > 0
        has_prey     == \A p \in 1..Len(PREY) :
                            DictHas(species_counts, PREY[p])
                                => DictGet(species_counts, PREY[p]) > 0
    IN  has_predator /\ has_prey

\* Lines 849-851.
PredatorPreyConflict(species_counts) ==
    LET has_predator == \E p \in 1..Len(PREDATORS) :
                            /\ DictHas(species_counts, PREDATORS[p])
                            /\ DictGet(species_counts, PREDATORS[p]) > 0
        has_prey     == \E p \in 1..Len(PREY) :
                            /\ DictHas(species_counts, PREY[p])
                            /\ DictGet(species_counts, PREY[p]) > 0
    IN  has_predator /\ has_prey

\* Line 854.
SignificantSpecies(species_frame_percentages) ==
    DictKeys(SelectSeq(species_frame_percentages,
                       LAMBDA e : RatioGeq(e.v, SIGNIFICANT_FRAME_SHARE)))

\* Line 857.
DetectionRate(frames_with_detections, total_frames) ==
    IF total_frames > 0 THEN Ratio(frames_with_detections, total_frames)
    ELSE Ratio(0, 1)

\* d.get(key, 0) for a dict of fractions.
PercentageOrZero(d, key) == IF DictHas(d, key) THEN DictGet(d, key) ELSE Ratio(0, 1)

\* An f-string: its text with {} for each replacement field, and the values
\* substituted, unrendered.
Reason(fmt, args) == [fmt |-> fmt, args |-> args]

\* Line 860.
NoAnimalRule_Lenient(frames_with_detections) == frames_with_detections <= 1

NoAnimalRule(frames_with_detections) == frames_with_detections = 0

TooManyTransitions_Low(species_transitions, significant_species) ==
    /\ species_transitions > 1
    /\ Len(significant_species) > 1

\* Line 866.
TooManyTransitions(species_transitions, significant_species) ==
    /\ species_transitions > MAX_SPECIES_TRANSITIONS
    /\ Len(significant_species) > 1

HasDominantSpecies_Majority(dominant_species, species_percentages) ==
    /\ Truthy(dominant_species)
    /\ RatioGeq(PercentageOrZero(species_percentages, dominant_species[1]),
                Ratio(1, 2))

HasDominantSpecies_Strict(dominant_species, species_percentages) ==
    /\ Truthy(dominant_species)
    /\ RatioGt(PercentageOrZero(species_percentages, dominant_species[1]),
               DOMINANT_SPECIES_THRESHOLD)

\* Line 869.
HasDominantSpecies(dominant_species, species_percentages) ==
    /\ Truthy(dominant_species)
    /\ RatioGeq(PercentageOrZero(species_percentages, dominant_species[1]),
                DOMINANT_SPECIES_THRESHOLD)

\* Lines 870-871.
DominantResult(dominant_species, species_percentages) ==
    [classification |-> dominant_species[1],
     reason |-> Reason("Dominant species ({}) with {}% of detections",
                       <<dominant_species[1],
                         ToString(DictGet(species_percentages, dominant_species[1]))>>)]

\* Lines 867-868.
TransitionsResult(species_transitions) ==
    [classification |-> "Unsorted",
     reason |-> Reason("Too many species transitions ({})",
                       <<ToString(species_transitions)>>)]

\* Rules in the order a, b, d, c, e.
VideoDecision_DominantFirst(frames_with_detections, predator_prey_conflict, species_transitions, significant_species, dominant_species, species_percentages) ==
    IF NoAnimalRule(frames_with_detections)
    THEN [classification |-> "No_Animal",
          reason |-> Reason("No animals detected in any frames", << >>)]
    ELSE IF predator_prey_conflict
    THEN [classification |-> "Unsorted",
          reason |-> Reason("Both predator and prey detected", << >>)]
    ELSE IF HasDominantSpecies(dominant_species, species_percentages)
    THEN DominantResult(dominant_species, species_percentages)
    ELSE IF TooManyTransitions(species_transitions, significant_species)
    THEN TransitionsResult(species_transitions)
    ELSE [classification |-> "Unsorted",
          reason |-> Reason("No clear dominant species", << >>)]

\* Lines 859-874: the decision, as [classification, reason].
VideoDecision(frames_with_detections, predator_prey_conflict, species_transitions, significant_species, dominant_species, species_percentages) ==
    IF NoAnimalRule(frames_with_detections)
    THEN [classification |-> "No_Animal",
          reason |-> Reason("No animals detected in any frames", << >>)]
    ELSE IF predator_prey_conflict
    THEN [classification |-> "Unsorted",
          reason |-> Reason("Both predator and prey detected", << >>)]
    ELSE IF TooManyTransitions(species_transitions, significant_species)
    THEN TransitionsResult(species_transitions)
    ELSE IF HasDominantSpecies(dominant_species, species_percentages)
    THEN DominantResult(dominant_species, species_percentages)
    ELSE [classification |-> "Unsorted",
          reason |-> Reason("No clear dominant species", << >>)]

\* A call that returned value / a call that ended with an exception.
Returned(value) == [status |-> "returned", value |-> value]

Raised(error) == [status |-> "raised", error |-> error]

\* Lines 753-887.
analyze_video_detections(frames, names) ==
    LET total_frames == Len(frames)
        st == AnalyzeFrames(InitialCounters(names), frames, 0)
    IN  IF st.raised THEN Raised("KeyError")
        ELSE LET species_percentages == SpeciesPercentages(st.species_counts)
                 species_frame_percentages ==
                     SpeciesFramePercentages(st.species_frames, total_frames)
                 decision ==
                     VideoDecision(st.frames_with_detections,
                                   PredatorPreyConflict(st.species_counts),
                                   st.species_transitions,
                                   SignificantSpecies(species_frame_percentages),
                                   DominantSpecies(st.species_counts),
                                   species_percentages)
             IN  Returned(
                   [total_frames              |-> total_frames,
                    frames_with_detections    |-> st.frames_with_detections,
                    detection_rate            |-> DetectionRate(st.frames_with_detections,
                                                                total_frames),
                    species_counts            |-> st.species_counts,
                    species_percentages       |-> species_percentages,
                    species_frame_percentages |-> species_frame_percentages,
                    species_transitions       |-> st.species_transitions,
                    clusters                  |-> SortClusters(FinalClusters(st)),
                    classification            |-> decision.classification,
                    reason                    |-> decision.reason])

---------------------------------------------------------------------------
(* The image path, analyze_image_detections, lines 890-978.                *)

\* Lines 897-910: species_counts and species_confidences, d = the next
\* detection to count.  Both dicts get their keys from the detections, so no
\* class name is ever missing.
RECURSIVE TallyImage(_, _, _)
TallyImage(acc, detections, d) ==
    IF d > Len(detections) THEN acc
    ELSE LET species    == detections[d].class_name
             confidence == detections[d].confidence
             counts  == IF DictHas(acc.species_counts, species)
                        THEN acc.species_counts
                        ELSE DictSet(acc.species_counts, species, 0)
             confs   == IF DictHas(acc.species_counts, species)
                        THEN acc.species_confidences
                        ELSE DictSet(acc.species_confidences, species, << >>)
         IN  TallyImage(
               [species_counts      |-> DictSet(counts, species,
                                                DictGet(counts, species) + 1),
                species_confidences |-> DictSet(confs, species,
                                                Append(DictGet(confs, species),
                                                       confidence))],
               detections, d + 1)

RECURSIVE SumSeq(_)
SumSeq(xs) == IF xs = << >> THEN 0 ELSE xs[1] + SumSeq(Tail(xs))

\* Lines 912-915: sum(confidences) / len(confidences), in hundredths.
SpeciesAvgConfidence(species_confidences) ==
    [j \in 1..Len(species_confidences) |->
        [k |-> species_confidences[j].k,
         v |-> Ratio(SumSeq(species_confidences[j].v),
                     Len(species_confidences[j].v))]]

\* Lines 917-925.
ImagePercentages(species_counts) ==
    LET total_detections == SumValues(species_counts)
    IN  IF total_detections > 0
        THEN [j \in 1..Len(species_counts) |->
                 [k |-> species_counts[j].k,
                  v |-> Ratio(species_counts[j].v, total_detections)]]
        ELSE << >>

\* Line 928: the largest confidence of any detection, 0 without detections.
MaxConfidence(species_confidences) ==
    LET all == UNION {Range(species_confidences[j].v) :
                         j \in 1..Len(species_confidences)}
    IN  IF all = {} THEN 0 ELSE CHOOSE c \in all : \A x \in all : x <= c

ConfidenceUnsorted_Exclusive(max_confidence) ==
    /\ IMAGE_UNSORTED_MIN_CONFIDENCE <= max_confidence
    /\ max_confidence < IMAGE_UNSORTED_MAX_CONFIDENCE

\* Line 929.
ConfidenceUnsorted(max_confidence) ==
    /\ IMAGE_UNSORTED_MIN_CONFIDENCE <= max_confidence
    /\ max_confidence <= IMAGE_UNSORTED_MAX_CONFIDENCE

\* Line 945.
SortedSpecies(species_avg_confidence) ==
    SortedDesc(species_avg_confidence,
               [j \in 1..Len(species_avg_confidence) |-> species_avg_confidence[j].v])

\* Line 957: highest_conf - second_conf >= IMAGE_MULTI_SPECIES_THRESHOLD.
ClearWinner(highest_conf, second_conf) ==
    highest_conf.num * second_conf.den - second_conf.num * highest_conf.den
        >= IMAGE_MULTI_SPECIES_THRESHOLD * highest_conf.den * second_conf.den

\* Lines 945-947 and the replacement fields of lines 959 and 962.
Ranking(species_avg_confidence) ==
    LET sorted_species == SortedSpecies(species_avg_confidence)
    IN  [highest_species |-> sorted_species[1].k,
         highest_conf    |-> sorted_species[1].v,
         second_species  |-> sorted_species[2].k,
         second_conf     |-> sorted_species[2].v,
         shown           |-> <<sorted_species[1].k, ToString(sorted_species[1].v),
                               sorted_species[2].k, ToString(sorted_species[2].v)>>]

\* Lines 950-954.
ImageConflict(species_counts) ==
    LET detected_species == DictKeys(species_counts)
        has_predator     == \E j \in 1..Len(detected_species) :
                                detected_species[j] \in Range(PREDATORS)
        has_prey         == \E j \in 1..Len(detected_species) :
                                detected_species[j] \in Range(PREY)
    IN  has_predator /\ has_prey

\* Lines 957-962.
WinnerOrUnsorted(r) ==
    IF ClearWinner(r.highest_conf, r.second_conf)
    THEN [classification |-> r.highest_species,
          reason |-> Reason("Clear winner: {} ({}) vs {} ({})", r.shown)]
    ELSE [classification |-> "Unsorted",
          reason |-> Reason(
              "Multiple species with similar confidence: {} ({}) vs {} ({})",
              r.shown)]

MultiSpeciesDecision_NoConflictCheck(species_counts, species_avg_confidence) ==
    WinnerOrUnsorted(Ranking(species_avg_confidence))

\* Lines 943-962: more than one species.
MultiSpeciesDecision(species_counts, species_avg_confidence) ==
    IF ImageConflict(species_counts)
    THEN [classification |-> "Unsorted",
          reason |-> Reason("Both predator and prey detected in image", << >>)]
    ELSE WinnerOrUnsorted(Ranking(species_avg_confidence))

\* Lines 933-934.
InsufficientResult(total_detections) ==
    [classification |-> "No_Animal",
     reason |-> Reason("Insufficient detections (found {}, need {})",
                       <<ToString(total_detections), ToString(IMAGE_MIN_DETECTIONS)>>)]

\* Lines 936-937.
BandResult(max_confidence) ==
    [classification |-> "Unsorted",
     reason |-> Reason("Confidence between unsorted range ({} between {}-{})",
                       <<ToString(max_confidence),
                         ToString(IMAGE_UNSORTED_MIN_CONFIDENCE),
                         ToString(IMAGE_UNSORTED_MAX_CONFIDENCE)>>)]

\* Lines 940-942.
SingleSpeciesResult(species_counts, species_avg_confidence) ==
    [classification |-> species_counts[1].k,
     reason |-> Reason("Single species detected with {} confidence",
                       <<ToString(DictGet(species_avg_confidence,
                                          species_counts[1].k))>>)]

ImageDecision_SingleFirst(species_counts, species_avg_confidence, max_confidence) ==
    LET total_detections == SumValues(species_counts)
    IN  IF total_detections < IMAGE_MIN_DETECTIONS
        THEN InsufficientResult(total_detections)
        ELSE IF Len(species_counts) = 1
        THEN SingleSpeciesResult(species_counts, species_avg_confidence)
        ELSE IF ConfidenceUnsorted(max_confidence)
        THEN BandResult(max_confidence)
        ELSE IF Len(species_counts) > 1
        THEN MultiSpeciesDecision(species_counts, species_avg_confidence)
        ELSE [classification |-> "No_Animal",
              reason |-> Reason("No valid detections found", << >>)]

\* Lines 931-965: the decision, as [classification, reason].
ImageDecision(species_counts, species_avg_confidence, max_confidence) ==
    LET total_detections == SumValues(species_counts)
    IN  IF total_detections < IMAGE_MIN_DETECTIONS
        THEN InsufficientResult(total_detections)
        ELSE IF ConfidenceUnsorted(max_confidence)
        THEN BandResult(max_confidence)
        ELSE IF Len(species_counts) = 1
        THEN SingleSpeciesResult(species_counts, species_avg_confidence)
        ELSE IF Len(species_counts) > 1
        THEN MultiSpeciesDecision(species_counts, species_avg_confidence)
        ELSE [classification |-> "No_Animal",
              reason |-> Reason("No valid detections found", << >>)]

\* Lines 890-978.  class_names is not read.
analyze_image_detections(frame, names) ==
    LET tally == TallyImage([species_counts |-> << >>, species_confidences |-> << >>],
                            frame.detections, 1)
        species_counts      == tally.species_counts
        total_detections    == SumValues(species_counts)
        species_percentages == ImagePercentages(species_counts)
        decision == ImageDecision(species_counts,
                                  SpeciesAvgConfidence(tally.species_confidences),
                                  MaxConfidence(tally.species_confidences))
    IN  Returned(
          [total_frames              |-> 1,
           frames_with_detections    |-> IF total_detections > 0 THEN 1 ELSE 0,
           detection_rate            |-> IF total_detections > 0 THEN Ratio(1, 1)
                                         ELSE Ratio(0, 1),
           species_counts            |-> species_counts,
           species_percentages       |-> species_percentages,
           species_frame_percentages |-> species_percentages,
           species_transitions       |-> 0,
           clusters                  |-> << >>,
           classification            |-> decision.classification,
           reason                    |-> decision.reason])

---------------------------------------------------------------------------
(* The dispatcher, lines 741-751.                                          *)

analyze_detections_VideoOnly(frames, names) ==
    analyze_video_detections(frames, names)

analyze_detections(frames, names) ==
    IF Len(frames) = 1
    THEN analyze_image_detections(frames[1], names)
    ELSE analyze_video_detections(frames, names)

---------------------------------------------------------------------------
(* Output folders, src/WolfVue.py lines 67-82 and 981-1025.  A path is the  *)
(* sequence of its components; every label, category and species is one     *)
(* plain component (non-empty, without a separator), for which os.path.join *)
(* appends.                                                                 *)

\* Lines 67-82: the default taxonomy.  Only the keys of a category's dict
\* are read (species in subcategories, subcategories.items()).
TAXONOMY ==
    <<[k |-> "Ungulates", v |-> <<"WhiteTail", "MuleDeer", "Elk", "Moose">>],
      [k |-> "Predators", v |-> <<"Cougar", "Lynx", "Wolf", "Coyote", "Fox", "Bear">>]>>

\* os.path.join(base_path, *parts)
Join(base_path, parts) == base_path \o parts

\* os.makedirs(path, exist_ok=True): the directory and every missing parent.
MakeDirs(dirs, path) == dirs \cup {SubSeq(path, 1, n) : n \in 1..Len(path)}

\* Lines 1012-1019: the directories of the categories 1..n and their species.
RECURSIVE CategoryFolders(_, _, _, _)
CategoryFolders(dirs, base_path, tax, n) ==
    IF n = 0 THEN dirs
    ELSE LET category_path == Join(base_path, <<"Sorted", tax[n].k>>)
             done == CategoryFolders(dirs, base_path, tax, n - 1)
         IN  MakeDirs(done, category_path)
                 \cup {Join(category_path, <<tax[n].v[j]>>) : j \in 1..Len(tax[n].v)}

\* Lines 1003-1025.
create_folder_structure(base_path, tax) ==
    LET base == MakeDirs(MakeDirs(MakeDirs({}, Join(base_path, <<"Sorted">>)),
                                  Join(base_path, <<"Unsorted">>)),
                         Join(base_path, <<"No_Animal">>))
    IN  MakeDirs(CategoryFolders(base, base_path, tax, Len(tax)),
                 Join(base_path, <<"Sorted", "Other">>))

\* Lines 990-992: the first category from position n on that lists the
\* label, None if there is none.
RECURSIVE FindCategory(_, _, _)
FindCategory(label, tax, n) ==
    IF n > Len(tax) THEN None
    ELSE IF label \in Range(tax[n].v) THEN Some(tax[n].k)
    ELSE FindCategory(label, tax, n + 1)

RECURSIVE FindCategory_Last(_, _, _)
FindCategory_Last(label, tax, n) ==
    IF n > Len(tax) THEN None
    ELSE LET later == FindCategory_Last(label, tax, n + 1)
         IN  IF later # None THEN later
             ELSE IF label \in Range(tax[n].v) THEN Some(tax[n].k)
             ELSE None

get_species_folder_path_LastCategory(base_path, label, tax) ==
    IF label = "Unsorted" THEN Join(base_path, <<"Unsorted">>)
    ELSE IF label = "No_Animal" THEN Join(base_path, <<"No_Animal">>)
    ELSE LET category == FindCategory_Last(label, tax, 1)
         IN  IF category # None
             THEN Join(base_path, <<"Sorted", category[1], label>>)
             ELSE Join(base_path, <<"Sorted", "Other", label>>)

\* Lines 981-1000: the path returned.
get_species_folder_path(base_path, label, tax) ==
    IF label = "Unsorted" THEN Join(base_path, <<"Unsorted">>)
    ELSE IF label = "No_Animal" THEN Join(base_path, <<"No_Animal">>)
    ELSE LET category == FindCategory(label, tax, 1)
         IN  IF category # None
             THEN Join(base_path, <<"Sorted", category[1], label>>)
             ELSE Join(base_path, <<"Sorted", "Other", label>>)

\* Lines 994-998: the directories after the call; os.makedirs runs only
\* when the label is no special case and in no category.
FoldersAfterResolve(dirs, base_path, label, tax) ==
    IF label \in {"Unsorted", "No_Animal"} \/ FindCategory(label, tax, 1) # None
    THEN dirs
    ELSE MakeDirs(dirs, Join(base_path, <<"Sorted", "Other", label>>))

---------------------------------------------------------------------------
(* The frame sequences the analysis is applied to.                         *)

\* Largest number of frames of the exhaustively enumerated short sequences.
MaxShortLen == 3

\* Largest number of detections of an enumerated single-frame (image) input.
MaxImageDets == 2

\* Class names are non-empty labels: two predators and one prey.
Species == {"Wolf", "Fox", "Elk"}

\* class_names.values(): the full map, and one in another order that lacks
\* "Fox" (so that a "Fox" detection names no class of the map).
ClassNameMaps == {<<"Wolf", "Fox", "Elk">>, <<"Elk", "Wolf">>}

\* Confidences of image detections, in hundredths: below, at the ends of,
\* inside and above the unsorted band.  On these values every comparison the
\* source makes on double-precision sums, means and differences comes out as
\* it does in exact arithmetic.
Confidences == {20, 34, 35, 50, 65, 66, 80, 96}

Det(s, c) == [class_name |-> s, confidence |-> c]

Frame(dets) == [detections |-> dets]

\* A video frame holding one detection per listed name.
NamedFrame(names) == Frame([j \in 1..Len(names) |-> Det(names[j], 80)])

NoFrame == << >>

FrameKinds ==
    {NoFrame, <<"Wolf">>, <<"Fox">>, <<"Elk">>, <<"Wolf", "Elk">>,
     <<"Wolf", "Fox">>, <<"Fox", "Wolf">>, <<"Fox", "Wolf", "Wolf">>}

SingleKinds == {<<"Wolf">>, <<"Fox">>, <<"Elk">>}

\* Run lengths: around the dominant share 9/10, the empty-frame break, and
\* the 1/10 frame coverage.
RunLengths == {1, 2, 8, 9, 14, 15, 18, 24, 25}

AltReps == {1, 3, 4, 10}

GapLengths == {1, 14, 15, 16}

TailLengths == {1, 2, 15}

\* n frames of one kind.
Run(kind, n) == [j \in 1..n |-> NamedFrame(kind)]

\* The two kinds alternating, reps times each.
Alt(k1, k2, reps) ==
    [j \in 1..(2 * reps) |-> NamedFrame(IF j % 2 = 1 THEN k1 ELSE k2)]

RECURSIVE SeqsUpTo(_, _)
SeqsUpTo(S, n) ==
    IF n = 0 THEN {<< >>}
    ELSE LET shorter == SeqsUpTo(S, n - 1)
         IN  shorter \cup {Append(q, x) : q \in shorter, x \in S}

ShortVideos == {[j \in 1..Len(q) |-> NamedFrame(q[j])] : q \in SeqsUpTo(FrameKinds, MaxShortLen)}

RunVideos ==
    {Run(k1, n1) \o Run(k2, n2) :
        k1 \in FrameKinds, n1 \in RunLengths,
        k2 \in SingleKinds \cup {NoFrame}, n2 \in TailLengths}

AltVideos ==
    {Alt(k1, k2, a) \o Run(k3, n) :
        k1 \in SingleKinds, k2 \in SingleKinds \ {<<"Wolf">>}, a \in AltReps,
        k3 \in FrameKinds, n \in RunLengths \cup {0}}

GapVideos ==
    {Run(k1, n1) \o Run(NoFrame, g) \o Run(k2, n2) \o Run(NoFrame, t) :
        k1 \in {<<"Wolf">>}, n1 \in {1, 2}, g \in GapLengths,
        k2 \in {<<"Wolf">>, <<"Fox">>}, n2 \in {1, 2}, t \in {0} \cup GapLengths}

Images ==
    {<<Frame(dets)>> :
        dets \in SeqsUpTo({Det(s, c) : s \in Species, c \in Confidences}, MaxImageDets)}

\* The frames of a video with other confidences: c1 where frame position plus
\* detection position is even, c2 where it is odd.
Reconfident(frames, c1, c2) ==
    [j \in 1..Len(frames) |->
        Frame([d \in 1..Len(frames[j].detections) |->
                  Det(frames[j].detections[d].class_name,
                      IF (j + d) % 2 = 0 THEN c1 ELSE c2)])]

\* Confidences of video detections: under, between and over the thresholds
\* of the source.
VideoConfidences == {20, 50, 96}

\* Two-frame videos whose detections carry every mix of these confidences.
ConfVideos ==
    {Reconfident(v, c1, c2) :
        v \in {[j \in 1..2 |-> NamedFrame(q[j])] : q \in [1..2 -> FrameKinds]},
        c1 \in VideoConfidences, c2 \in VideoConfidences}

Inputs ==
    ShortVideos \cup RunVideos \cup AltVideos \cup GapVideos \cup ConfVideos \cup Images

---------------------------------------------------------------------------
(* One call of analyze_detections.                                          *)

NoResult == [status |-> "none"]

\* No folder has been asked for.
NoPaths ==
    /\ output_folder = << >>
    /\ taxonomy = << >>
    /\ folders = {}
    /\ classification = None
    /\ target_folder = None
    /\ resolved = {}

\* No batch is being processed.
NoBatch ==
    /\ video_files = << >>
    /\ image_files = << >>
    /\ file_index = 0
    /\ results = << >>
    /\ errors = << >>
    /\ copied = {}
    /\ analyzed = << >>
    /\ report = None

Init ==
    /\ frame_data \in Inputs
    /\ class_names \in ClassNameMaps
    /\ pc = "call"
    /\ result = NoResult
    /\ NoPaths
    /\ NoBatch
    /\ calls = << >>

\* analysis = analyze_detections(frame_data, class_names)
Analyze ==
    /\ pc = "call"
    /\ result' = analyze_detections(frame_data, class_names)
    /\ pc' = "done"
    /\ UNCHANGED <<frame_data, class_names, pathVars, batchVars, calls>>

Next == Analyze

Spec == Init /\ [][Next]_vars

---------------------------------------------------------------------------
(* What the input holds, counted from frame_data itself and not by the     *)
(* analysis: the reference the results are compared with.                  *)

Done == pc = "done"

CallReturned == Done /\ result.status = "returned"

\* The input takes the video path and has at least two frames.
IsVideo == Len(frame_data) >= 2

IsImage == Len(frame_data) = 1

\* Every detection of the input, as <<frame position, detection position>>.
AllDetections ==
    UNION {{<<i, d>> : d \in 1..Len(frame_data[i].detections)} : i \in 1..Len(frame_data)}

NameAt(p) == frame_data[p[1]].detections[p[2]].class_name

ConfidenceAt(p) == frame_data[p[1]].detections[p[2]].confidence

NamesSeen == {NameAt(p) : p \in AllDetections}

CountOf(s) == Cardinality({p \in AllDetections : NameAt(p) = s})

TotalCount == Cardinality(AllDetections)

NonEmptyFrames == {i \in 1..Len(frame_data) : frame_data[i].detections # << >>}

FramesWith(s) == {p[1] : p \in {q \in AllDetections : NameAt(q) = s}}

PredatorSeen == \E s \in NamesSeen : s \in Range(PREDATORS)

PreySeen == \E s \in NamesSeen : s \in Range(PREY)

\* s holds at least the share DOMINANT_SPECIES_THRESHOLD of all detections.
ShareAtThreshold(s) ==
    CountOf(s) * DOMINANT_SPECIES_THRESHOLD.den
        >= DOMINANT_SPECIES_THRESHOLD.num * TotalCount

\* Species present in at least one tenth of the frames.
SignificantSeen ==
    {s \in NamesSeen : Cardinality(FramesWith(s)) * 10 >= Len(frame_data)}

\* The transitions rule, on the reported transition count.
TransitionsRuleFires ==
    /\ result.value.species_transitions > MAX_SPECIES_TRANSITIONS
    /\ Cardinality(SignificantSeen) > 1

MaxConfidenceSeen ==
    IF AllDetections = {} THEN 0
    ELSE CHOOSE c \in {ConfidenceAt(p) : p \in AllDetections} :
             \A p \in AllDetections : ConfidenceAt(p) <= c

InBand(c) ==
    IMAGE_UNSORTED_MIN_CONFIDENCE <= c /\ c <= IMAGE_UNSORTED_MAX_CONFIDENCE

RECURSIVE ConfidenceSumOver(_)
ConfidenceSumOver(S) ==
    IF S = {} THEN 0
    ELSE LET p == CHOOSE p \in S : TRUE
         IN  ConfidenceAt(p) + ConfidenceSumOver(S \ {p})

ConfidenceSum(s) == ConfidenceSumOver({p \in AllDetections : NameAt(p) = s})

\* mean confidence of h - mean confidence of o >= IMAGE_MULTI_SPECIES_THRESHOLD
MeanGapAtLeastThreshold(h, o) ==
    ConfidenceSum(h) * CountOf(o) - ConfidenceSum(o) * CountOf(h)
        >= IMAGE_MULTI_SPECIES_THRESHOLD * CountOf(h) * CountOf(o)

\* h leads every other species by the threshold: h is ranked first and the
\* gap to the second-ranked species is at least the threshold.
ClearlyAhead(h) == \A o \in NamesSeen \ {h} : MeanGapAtLeastThreshold(h, o)

Label == result.value.classification

ReasonText == result.value.reason.fmt

---------------------------------------------------------------------------
(* C1..C10                                                                 *)

\* The first rule of the video decision order a..e that matches the input.
VideoRule ==
    IF NonEmptyFrames = {} THEN "a"
    ELSE IF PredatorSeen /\ PreySeen THEN "b"
    ELSE IF TransitionsRuleFires THEN "c"
    ELSE IF \E s \in NamesSeen : ShareAtThreshold(s) THEN "d"
    ELSE "e"

ImageRule ==
    IF TotalCount < IMAGE_MIN_DETECTIONS THEN "a"
    ELSE IF InBand(MaxConfidenceSeen) THEN "b"
    ELSE IF Cardinality(NamesSeen) = 1 THEN "c"
    ELSE IF Cardinality(NamesSeen) > 1 THEN "d"
    ELSE "e"

\* C2: for every single frame the image analyzer's classification and reason
\* are those of the first matching rule in the order (a) fewer than
\* IMAGE_MIN_DETECTIONS detections -> No_Animal, (b) the largest confidence
\* lies in the unsorted band -> Unsorted, (c) exactly one species -> that
\* species, (d) several species: predator and prey both present -> Unsorted,
\* else a gap of at least IMAGE_MULTI_SPECIES_THRESHOLD between the two highest
\* mean confidences -> the highest-ranked species, else Unsorted, (e) otherwise
\* No_Animal; each rule has a non-empty reason.
C2_ImageRuleOrder ==
    (CallReturned /\ IsImage) =>
        /\ ReasonText # ""
        /\ ImageRule = "a" =>
              /\ Label = "No_Animal"
              /\ ReasonText = "Insufficient detections (found {}, need {})"
        /\ ImageRule = "b" =>
              /\ Label = "Unsorted"
              /\ ReasonText = "Confidence between unsorted range ({} between {}-{})"
        /\ ImageRule = "c" =>
              /\ NamesSeen = {Label}
              /\ ReasonText = "Single species detected with {} confidence"
        /\ (ImageRule = "d" /\ PredatorSeen /\ PreySeen) =>
              /\ Label = "Unsorted"
              /\ ReasonText = "Both predator and prey detected in image"
        /\ (ImageRule = "d" /\ ~(PredatorSeen /\ PreySeen)) =>
              IF \E h \in NamesSeen : ClearlyAhead(h)
              THEN /\ Label \in NamesSeen
                   /\ ClearlyAhead(Label)
                   /\ ReasonText = "Clear winner: {} ({}) vs {} ({})"
              ELSE /\ Label = "Unsorted"
                   /\ ReasonText =
                        "Multiple species with similar confidence: {} ({}) vs {} ({})"
        /\ ImageRule = "e" =>
              /\ Label = "No_Animal"
              /\ ReasonText = "No valid detections found"

\* A frame with several species where the gap rule names the winner.
C2_Witness ==
    /\ CallReturned /\ IsImage
    /\ ImageRule = "d"
    /\ ~(PredatorSeen /\ PreySeen)
    /\ Label \in NamesSeen
    /\ ClearlyAhead(Label)

ImageReasons ==
    {"Insufficient detections (found {}, need {})",
     "Confidence between unsorted range ({} between {}-{})",
     "Single species detected with {} confidence",
     "Both predator and prey detected in image",
     "Clear winner: {} ({}) vs {} ({})",
     "Multiple species with similar confidence: {} ({}) vs {} ({})",
     "No valid detections found"}

\* C3: analyze_detections hands frames[0] to the image analyzer exactly when
\* the sequence has one frame, and handles every other length on the video
\* path: the outcome of a one-frame sequence is the image analyzer's (image
\* rules, one frame, no clusters, no transitions), the outcome of any other
\* sequence is the video analyzer's.
C3_DispatchOnLength ==
    Done =>
        /\ IsImage =>
              /\ result = analyze_image_detections(frame_data[1], class_names)
              /\ ReasonText \in ImageReasons
              /\ result.value.total_frames = 1
              /\ result.value.clusters = << >>
              /\ result.value.species_transitions = 0
        /\ ~IsImage =>
              /\ result = analyze_video_detections(frame_data, class_names)
              /\ result.status = "returned" =>
                    /\ ReasonText \notin ImageReasons
                    /\ result.value.total_frames = Len(frame_data)

\* A one-frame sequence that the video rules would have labelled with its
\* species is left Unsorted by the image rules.
C3_Witness ==
    /\ CallReturned /\ IsImage
    /\ Label = "Unsorted"
    /\ analyze_video_detections(frame_data, class_names).status = "returned"
    /\ analyze_video_detections(frame_data, class_names).value.classification
           \in NamesSeen

\* C4: a sequence of two or more frames none of which has a detection is
\* No_Animal, a single frame without detections is No_Animal, and on the video
\* path No_Animal is returned only when no frame has a detection.
C4_NoDetections ==
    CallReturned =>
        /\ (Len(frame_data) >= 1 /\ NonEmptyFrames = {}) => Label = "No_Animal"
        /\ (IsVideo /\ Label = "No_Animal") => NonEmptyFrames = {}

\* Two or more frames, all of them empty.
C4_Witness ==
    /\ CallReturned /\ IsVideo
    /\ NonEmptyFrames = {}
    /\ Label = "No_Animal"

\* C5: a video (two or more frames) with a detection of a predator-set
\* species and a detection of a prey-set species anywhere is Unsorted,
\* whatever the shares, the transitions and the dominant species.
C5_VideoConflictUnsorted ==
    (CallReturned /\ IsVideo /\ PredatorSeen /\ PreySeen) => Label = "Unsorted"

\* Predator and prey in different frames only, one of them holding the
\* dominant share.
C5_Witness ==
    /\ CallReturned /\ IsVideo
    /\ PredatorSeen /\ PreySeen
    /\ \E s \in NamesSeen : ShareAtThreshold(s)
    /\ \A i \in NonEmptyFrames :
           \A d, e \in 1..Len(frame_data[i].detections) :
               frame_data[i].detections[d].class_name
                   = frame_data[i].detections[e].class_name
    /\ Label = "Unsorted"

\* Scenario A: frames 0-17 hold one Wolf detection each, frames 18-19 none.
ScenarioA == Run(<<"Wolf">>, 18) \o Run(NoFrame, 2)

\* C6: on the video path, without a predator/prey conflict and without the
\* transitions rule firing, a species whose share of all detections is
\* DOMINANT_SPECIES_THRESHOLD or more (exactly 0.90 included) is the
\* classification, and with every share below the threshold the
\* classification is Unsorted; empty frames do not change the shares
\* (scenario A is Wolf, with share 1.0).
C6_DominantThreshold ==
    /\ (CallReturned /\ IsVideo /\ NonEmptyFrames # {} /\ ~(PredatorSeen /\ PreySeen)
          /\ ~TransitionsRuleFires) =>
            /\ \A s \in NamesSeen : ShareAtThreshold(s) => Label = s
            /\ (\A s \in NamesSeen : ~ShareAtThreshold(s)) => Label = "Unsorted"
            /\ \A s \in NamesSeen :
                   DictGet(result.value.species_percentages, s)
                       = Ratio(CountOf(s), TotalCount)
    /\ (Done /\ frame_data = ScenarioA) =>
            /\ result.status = "returned"
            /\ Label = "Wolf"
            /\ DictGet(result.value.species_percentages, "Wolf") = Ratio(1, 1)

\* A share of exactly DOMINANT_SPECIES_THRESHOLD, next to another species.
C6_Witness ==
    /\ CallReturned /\ IsVideo
    /\ ~(PredatorSeen /\ PreySeen) /\ ~TransitionsRuleFires
    /\ Cardinality(NamesSeen) = 2
    /\ CountOf(Label) * DOMINANT_SPECIES_THRESHOLD.den
           = DOMINANT_SPECIES_THRESHOLD.num * TotalCount

\* C7: a single frame with at least IMAGE_MIN_DETECTIONS detections whose
\* largest confidence is in [IMAGE_UNSORTED_MIN_CONFIDENCE,
\* IMAGE_UNSORTED_MAX_CONFIDENCE], both ends included, is Unsorted even with one
\* species only; a one-species frame whose largest confidence is 0.01 above the
\* upper end is that species.
C7_BandInclusive ==
    (CallReturned /\ IsImage /\ TotalCount >= IMAGE_MIN_DETECTIONS) =>
        /\ InBand(MaxConfidenceSeen) => Label = "Unsorted"
        /\ (MaxConfidenceSeen = IMAGE_UNSORTED_MAX_CONFIDENCE + 1
              /\ Cardinality(NamesSeen) = 1) => NamesSeen = {Label}

\* One species, largest confidence exactly at the upper end of the band.
C7_Witness ==
    /\ CallReturned /\ IsImage
    /\ Cardinality(NamesSeen) = 1
    /\ MaxConfidenceSeen = IMAGE_UNSORTED_MAX_CONFIDENCE
    /\ Label = "Unsorted"

\* C8: a single frame with at least IMAGE_MIN_DETECTIONS detections in which a
\* predator-set species and a prey-set species are both present is Unsorted,
\* never a species, whether or not the largest confidence is in the unsorted
\* band; only the reason tells which rule decided.
C8_ImageConflictUnsorted ==
    (CallReturned /\ IsImage /\ TotalCount >= IMAGE_MIN_DETECTIONS
        /\ PredatorSeen /\ PreySeen) =>
            /\ Label = "Unsorted"
            /\ ReasonText = IF InBand(MaxConfidenceSeen)
                            THEN "Confidence between unsorted range ({} between {}-{})"
                            ELSE "Both predator and prey detected in image"

\* Predator and prey outside the band, the predator clearly ahead.
C8_Witness ==
    /\ CallReturned /\ IsImage
    /\ PredatorSeen /\ PreySeen
    /\ ~InBand(MaxConfidenceSeen)
    /\ \E h \in NamesSeen : ClearlyAhead(h)
    /\ Label = "Unsorted"

\* C9: analyze_detections returns a result, for every frame sequence, every
\* detection with any class name and every class_names map, a class name that
\* is no value of class_names included.
C9_NeverRaises == Done => result.status = "returned"

\* C10: on the empty frame sequence analyze_detections returns detection_rate
\* 0, empty species_percentages and species_frame_percentages and No_Animal;
\* and for any input without a detection species_percentages is empty.
C10_DivisionGuards ==
    /\ (Done /\ frame_data = << >>) =>
            /\ result.status = "returned"
            /\ result.value.total_frames = 0
            /\ result.value.detection_rate = Ratio(0, 1)
            /\ result.value.species_percentages = << >>
            /\ result.value.species_frame_percentages = << >>
            /\ Label = "No_Animal"
    /\ (Done /\ AllDetections = {}) =>
            /\ result.status = "returned"
            /\ result.value.species_percentages = << >>

\* The empty frame sequence has been analyzed.
C10_Witness == CallReturned /\ frame_data = << >>

---------------------------------------------------------------------------
(* C16: the video analysis does not look at confidences: a sequence of two  *)
(* or more frames gets, in every field, the result of the same sequence     *)
(* with every confidence replaced by one fixed value, so any two sequences  *)
(* that differ only in confidences get identical results.  (Bounding boxes  *)
(* are no part of a detection here: the analysis never reads them.)         *)

SameConfidence(frames) == Reconfident(frames, 80, 80)

C16_VideoIgnoresConfidence ==
    (Done /\ IsVideo)
        => result = analyze_detections(SameConfidence(frame_data), class_names)

\* A returned video call whose detections carry a confidence under every
\* threshold of the source and one over them, all of them counted.
C16_Witness ==
    /\ CallReturned /\ IsVideo
    /\ \E p, q \in AllDetections : ConfidenceAt(p) = 20 /\ ConfidenceAt(q) = 96
    /\ SumValues(result.value.species_counts) = TotalCount
    /\ Label \in Species

---------------------------------------------------------------------------
(* C17: in every result, of a video or of an image, the keys of             *)
(* species_frame_percentages are the species that appear in some frame, and *)
(* the value of a species is the number of frames holding a detection of it *)
(* divided by the number of frames (1 for every species of an image).       *)

FrameShare(s) == Ratio(Cardinality(FramesWith(s)), Len(frame_data))

C17_FrameShare ==
    CallReturned =>
        LET species_frame_percentages == result.value.species_frame_percentages
        IN  /\ Range(DictKeys(species_frame_percentages)) = NamesSeen
            /\ \A s \in NamesSeen :
                   DictGet(species_frame_percentages, s) = FrameShare(s)

---------------------------------------------------------------------------
(* C18: Scenario B, twenty frames with one detection each, alternating      *)
(* Wolf, Elk, Wolf, Elk, ...                                                *)

ScenarioB == Alt(<<"Wolf">>, <<"Elk">>, 10)

\* C18 as stated: the analysis of Scenario B reports ten transitions.
C18_ScenarioB_Ten ==
    (CallReturned /\ frame_data = ScenarioB)
        => result.value.species_transitions = 10

\* C18 amended: the analysis of Scenario B reports nineteen transitions, one
\* for every frame after the first, each of which differs from the frame
\* before it.
C18_ScenarioB_Nineteen ==
    (CallReturned /\ frame_data = ScenarioB)
        => result.value.species_transitions = Len(ScenarioB) - 1

\* The analysis of Scenario B has returned: twenty frames, both species in
\* ten of them.
C18_Witness ==
    /\ CallReturned /\ frame_data = ScenarioB
    /\ result.value.total_frames = 20
    /\ result.value.species_frame_percentages
           = <<[k |-> "Wolf", v |-> Ratio(1, 2)], [k |-> "Elk", v |-> Ratio(1, 2)]>>
    /\ result.value.species_transitions = 19

---------------------------------------------------------------------------
(* C19: the clusters of a video result are in descending order of frame     *)
(* count, clusters of equal frame count in temporal order (by start); an    *)
(* image result has no clusters and species_transitions = 0.                *)

C19_ClustersOrdered ==
    CallReturned =>
        LET clusters == result.value.clusters
        IN  /\ ~IsImage =>
                   \A a, b \in 1..Len(clusters) :
                       a < b => \/ clusters[a].frames > clusters[b].frames
                                \/ /\ clusters[a].frames = clusters[b].frames
                                   /\ clusters[a].start < clusters[b].start
            /\ IsImage => /\ clusters = << >>
                          /\ result.value.species_transitions = 0

\* A video result in which the order of the list differs from the temporal
\* order (a later cluster with more frames comes first) and two clusters
\* have the same frame count.
C19_Witness ==
    /\ CallReturned /\ IsVideo
    /\ LET clusters == result.value.clusters
       IN  \E a, b, c \in 1..Len(clusters) :
               /\ a < b /\ clusters[a].start > clusters[b].start
               /\ c # b /\ clusters[c].frames = clusters[b].frames

---------------------------------------------------------------------------
(* C20: species_transitions is the number of non-empty frames whose         *)
(* dominant species (most detections in the frame, the first one met on a   *)
(* tie) differs from that of the nearest non-empty frame before them.       *)
(* Empty frames in between, however many, neither count nor make the        *)
(* analysis forget the species, and the first non-empty frame never counts. *)

DetectionsOf(i, s) ==
    {d \in 1..Len(frame_data[i].detections) : frame_data[i].detections[d].class_name = s}

FirstOf(i, s) == CHOOSE d \in DetectionsOf(i, s) : \A e \in DetectionsOf(i, s) : d <= e

FrameDominant(i) ==
    LET names == {frame_data[i].detections[d].class_name :
                     d \in 1..Len(frame_data[i].detections)}
    IN  CHOOSE s \in names :
            \A t \in names \ {s} :
                \/ Cardinality(DetectionsOf(i, s)) > Cardinality(DetectionsOf(i, t))
                \/ /\ Cardinality(DetectionsOf(i, s)) = Cardinality(DetectionsOf(i, t))
                   /\ FirstOf(i, s) < FirstOf(i, t)

\* The nearest non-empty frame at or before position i, 0 if there is none.
RECURSIVE LastNonEmptyUpTo(_)
LastNonEmptyUpTo(i) ==
    IF i = 0 THEN 0
    ELSE IF frame_data[i].detections # << >> THEN i
    ELSE LastNonEmptyUpTo(i - 1)

\* The non-empty frames that have a non-empty frame before them, the nearest
\* of which has another dominant species.
TransitionFrames ==
    {i \in 1..Len(frame_data) :
        /\ frame_data[i].detections # << >>
        /\ LET j == LastNonEmptyUpTo(i - 1)
           IN  j > 0 /\ FrameDominant(j) # FrameDominant(i)}

C20_TransitionsCounted ==
    CallReturned => result.value.species_transitions = Cardinality(TransitionFrames)

\* A returned call on frames where a run of at least CONSECUTIVE_EMPTY_FRAMES
\* empty frames, which closed a cluster, lies between two non-empty frames of
\* different dominant species, and where the first frame is non-empty.
C20_Witness ==
    /\ CallReturned /\ 1 \in NonEmptyFrames
    /\ \E i \in TransitionFrames :
           i - LastNonEmptyUpTo(i - 1) > CONSECUTIVE_EMPTY_FRAMES
    /\ Len(result.value.clusters) >= 2
    /\ result.value.species_transitions >= 1

---------------------------------------------------------------------------
(* Resolving labels to folders: get_species_folder_path called any number  *)
(* of times, on any label, after create_folder_structure.                  *)

Labels == {"Unsorted", "No_Animal", "Wolf", "Elk", "Raccoon", "Other", "Sorted"}

\* The default taxonomy, none, one that lists "Wolf" under two categories,
\* and one with a category "Other" and a species called "Unsorted".
Taxonomies ==
    {TAXONOMY,
     << >>,
     <<[k |-> "Canids", v |-> <<"Fox", "Wolf">>],
       [k |-> "Predators", v |-> <<"Wolf", "Bear">>]>>,
     <<[k |-> "Other", v |-> <<"Elk", "Unsorted">>],
       [k |-> "Predators", v |-> <<"Wolf">>]>>}

BasePaths == {<<"out">>, <<"data", "sorted">>}

InitPaths ==
    /\ frame_data = << >>
    /\ class_names = << >>
    /\ pc = "done"
    /\ result = NoResult
    /\ output_folder \in BasePaths
    /\ taxonomy \in Taxonomies
    /\ folders = create_folder_structure(output_folder, taxonomy)
    /\ classification = None
    /\ target_folder = None
    /\ resolved = {}
    /\ NoBatch
    /\ calls = << >>

\* target_folder = get_species_folder_path(base_path, classification, taxonomy)
ResolvePath ==
    \E label \in Labels :
        /\ classification' = Some(label)
        /\ target_folder' = Some(get_species_folder_path(output_folder, label, taxonomy))
        /\ folders' = FoldersAfterResolve(folders, output_folder, label, taxonomy)
        /\ resolved' = resolved \cup {[species |-> label, path |-> target_folder'[1]]}
        /\ UNCHANGED <<coreVars, output_folder, taxonomy, batchVars, calls>>

NextPaths == ResolvePath

SpecPaths == InitPaths /\ [][NextPaths]_vars

---------------------------------------------------------------------------
(* C12: get_species_folder_path is a function of (base_path, label,         *)
(* taxonomy) and always returns: "Unsorted" and "No_Animal" resolve to      *)
(* that folder under the base, a species listed in the taxonomy to          *)
(* Sorted/<category>/<species> for the first category listing it, any other *)
(* label to Sorted/Other/<label>; a label resolved again resolves to the    *)
(* same path, and the folders on disk depend only on which labels were      *)
(* resolved, not on how often.                                              *)

\* The positions of the categories that list the label.
CategoriesListing(label) ==
    {n \in 1..Len(taxonomy) : \E j \in 1..Len(taxonomy[n].v) : taxonomy[n].v[j] = label}

ExpectedPath(label) ==
    IF label \in {"Unsorted", "No_Animal"} THEN output_folder \o <<label>>
    ELSE IF CategoriesListing(label) # {}
    THEN LET first == CHOOSE n \in CategoriesListing(label) :
                          \A m \in CategoriesListing(label) : n <= m
         IN  output_folder \o <<"Sorted", taxonomy[first].k, label>>
    ELSE output_folder \o <<"Sorted", "Other", label>>

\* The labels resolved so far that are no special case and in no category.
UnknownResolved ==
    {r.species : r \in {q \in resolved : /\ q.species \notin {"Unsorted", "No_Animal"}
                                         /\ CategoriesListing(q.species) = {}}}

C12_FolderPath ==
    /\ \A r \in resolved : r.path = ExpectedPath(r.species)
    /\ classification # None => /\ target_folder = Some(ExpectedPath(classification[1]))
                                /\ target_folder[1] \in folders
    /\ folders = create_folder_structure(output_folder, taxonomy)
                     \cup {output_folder \o <<"Sorted", "Other", l>> : l \in UnknownResolved}

\* Under a taxonomy that lists "Wolf" twice: "Wolf", an unknown label and a
\* special label have been resolved, the unknown label last and not for the
\* first time.
C12_Witness ==
    /\ Cardinality(CategoriesListing("Wolf")) = 2
    /\ {"Wolf", "Raccoon", "No_Animal"} \subseteq {r.species : r \in resolved}
    /\ classification = Some("Raccoon")
    /\ target_folder = Some(output_folder \o <<"Sorted", "Other", "Raccoon">>)
    /\ target_folder[1] \in folders

---------------------------------------------------------------------------
(* Ingestion, src/WolfVue.py lines 597-738.                                *)
(*                                                                         *)
(*   box    what the detector reports: [cls_id, conf], conf in hundredths  *)
(*   video  [opens, frames, truncated, raises_at]: whether the capture     *)
(*          opens; the boxes of the frames video.read() delivers before it *)
(*          reports failure; whether that failure comes before the end of  *)
(*          the file; the frame at which the detector raises (0: never)    *)
(*   image  [readable, boxes, raises]: whether cv2.imread returns an       *)
(*          image; the boxes of the image; whether the detector raises     *)
(* What ingestion returns is [status, none, frames]: none tells None from  *)
(* a list of frames.                                                       *)

ReturnedNone == [status |-> "returned", none |-> TRUE, frames |-> << >>]

ReturnedFrames(frames) == [status |-> "returned", none |-> FALSE, frames |-> frames]

\* Lines 613-629 and 676-691: the detections kept from the boxes of a frame;
\* class id c is position c + 1 of class_names.values().
KeepBoxes(boxes, threshold, names) ==
    LET kept == SelectSeq(boxes, LAMBDA box : box.conf >= threshold)
    IN  [j \in 1..Len(kept) |-> Det(names[kept[j].cls_id + 1], kept[j].conf)]

process_image_with_yolo_Unfiltered(image, names) ==
    IF ~image.readable THEN ReturnedNone
    ELSE IF image.raises THEN ReturnedNone
    ELSE ReturnedFrames(<<Frame(KeepBoxes(image.boxes, 0, names))>>)

\* Lines 597-645: every exception is caught and None returned.
process_image_with_yolo(image, names) ==
    IF ~image.readable THEN ReturnedNone
    ELSE IF image.raises THEN ReturnedNone
    ELSE ReturnedFrames(<<Frame(KeepBoxes(image.boxes, IMAGE_CONFIDENCE_THRESHOLD, names))>>)

\* Lines 648-738: no exception is caught; the loop ends at the first read
\* that fails, be it at the end of the file or before it.
process_video_with_yolo(video, names) ==
    IF ~video.opens THEN ReturnedNone
    ELSE IF video.raises_at \in 1..Len(video.frames) THEN Raised("Exception")
    ELSE ReturnedFrames([j \in 1..Len(video.frames) |->
                            Frame(KeepBoxes(video.frames[j], CONFIDENCE_THRESHOLD, names))])

\* Lines 1113 and 1173: not frame_data.
NotFrameData(ingested) == ingested.none \/ ingested.frames = << >>

\* Lines 1244-1257: the copy made of file i; file names are distinct, so the
\* target never exists before.
sort_file(i, label, base_path, tax) ==
    [file |-> i, folder |-> get_species_folder_path(base_path, label, tax)]

---------------------------------------------------------------------------
(* process_all_files, lines 1028-1231: one action per pass of its two      *)
(* loops, one for its end.                                                 *)

\* Largest number of videos in the input folder.
MaxVideos == 2

\* Largest number of images in the input folder.
MaxImages == 1

Box(c, conf) == [cls_id |-> c, conf |-> conf]

Video(opens, frames, truncated, raises_at) ==
    [opens |-> opens, frames |-> frames, truncated |-> truncated, raises_at |-> raises_at]

Image(readable, boxes, raises) == [readable |-> readable, boxes |-> boxes, raises |-> raises]

\* Class ids 0, 1, 2 are Wolf, Fox, Elk.
BatchClassNames == <<"Wolf", "Fox", "Elk">>

\* A video that does not open; one without a frame; a whole video with
\* boxes around the video threshold; videos cut short by a failing read after
\* one and after two frames; a video at whose second frame the detector
\* raises.
Videos ==
    {Video(FALSE, << >>, FALSE, 0),
     Video(TRUE, << >>, FALSE, 0),
     Video(TRUE, <<<<Box(0, 80)>>, <<Box(0, 39)>>, <<Box(0, 40)>>>>, FALSE, 0),
     Video(TRUE, <<<<Box(0, 80)>>>>, TRUE, 0),
     Video(TRUE, <<<<Box(2, 80)>>, <<Box(2, 80), Box(1, 20)>>>>, TRUE, 0),
     Video(TRUE, <<<<Box(0, 80)>>, <<Box(0, 80)>>>>, FALSE, 2)}

\* An unreadable image; images without a box, with a box under, inside, at
\* the upper end of and over the unsorted band; images with two species, of
\* which one or both are at or over the image threshold; an image on which
\* the detector raises.
BatchImages ==
    {Image(FALSE, << >>, FALSE),
     Image(TRUE, << >>, FALSE),
     Image(TRUE, <<Box(0, 20)>>, FALSE),
     Image(TRUE, <<Box(0, 50)>>, FALSE),
     Image(TRUE, <<Box(0, 65)>>, FALSE),
     Image(TRUE, <<Box(0, 96), Box(2, 50)>>, FALSE),
     Image(TRUE, <<Box(0, 96), Box(1, 20)>>, FALSE),
     Image(TRUE, <<Box(0, 100), Box(1, 65)>>, FALSE),
     Image(TRUE, <<Box(0, 65), Box(1, 65)>>, FALSE),
     Image(TRUE, <<Box(0, 80)>>, TRUE)}

InitBatch ==
    /\ class_names = BatchClassNames
    /\ frame_data = << >>
    /\ result = NoResult
    /\ pc = "files"
    /\ output_folder = <<"out">>
    /\ taxonomy = TAXONOMY
    /\ folders = create_folder_structure(output_folder, taxonomy)
    /\ classification = None
    /\ target_folder = None
    /\ resolved = {}
    /\ video_files \in SeqsUpTo(Videos, MaxVideos)
    /\ image_files \in SeqsUpTo(BatchImages, MaxImages)
    /\ file_index = 0
    /\ results = << >>
    /\ errors = << >>
    /\ copied = {}
    /\ analyzed = << >>
    /\ report = None
    /\ calls = << >>

total_files == Len(video_files) + Len(image_files)

\* Lines 1113-1115 and 1173-1175: the file is reported and skipped.
SkipFile(i) ==
    /\ errors' = Append(errors, i)
    /\ UNCHANGED <<frame_data, result, pc, folders, classification, target_folder,
                   results, copied, analyzed>>

\* Lines 1117-1158 and 1177-1217: the frames of file i are analyzed, the
\* file is copied to the folder of its label and its result is kept.  An
\* exception of analyze_detections is not caught.
AnalyzeAndSort(i, frames, file_type) ==
    LET analysis == analyze_detections(frames, class_names)
    IN  /\ frame_data' = frames
        /\ result' = analysis
        /\ analyzed' = Append(analyzed, [file |-> i, frame_data |-> frames])
        /\ IF analysis.status = "raised"
           THEN /\ pc' = "raised"
                /\ UNCHANGED <<folders, classification, target_folder, results, copied, errors>>
           ELSE LET label == analysis.value.classification
                    target_path == sort_file(i, label, output_folder, taxonomy)
                IN  /\ classification' = Some(label)
                    /\ target_folder' = Some(target_path.folder)
                    /\ folders' = FoldersAfterResolve(folders, output_folder, label, taxonomy)
                    /\ copied' = copied \cup {target_path}
                    /\ results' = Append(results,
                                         [original_path  |-> i,
                                          target_path    |-> target_path,
                                          classification |-> label,
                                          reason         |-> analysis.value.reason,
                                          file_type      |-> file_type])
                    /\ UNCHANGED <<pc, errors>>

\* Lines 1104-1162: one pass of the loop over the videos.  An exception of
\* process_video_with_yolo leaves process_all_files.
ProcessVideo ==
    /\ pc = "files"
    /\ file_index < Len(video_files)
    /\ file_index' = file_index + 1
    /\ LET ingested == process_video_with_yolo(video_files[file_index + 1], class_names)
       IN  IF ingested.status = "raised"
           THEN /\ pc' = "raised"
                /\ UNCHANGED <<frame_data, result, folders, classification, target_folder,
                               results, errors, copied, analyzed>>
           ELSE IF NotFrameData(ingested)
           THEN SkipFile(file_index + 1)
           ELSE AnalyzeAndSort(file_index + 1, ingested.frames, "video")
    /\ UNCHANGED <<class_names, output_folder, taxonomy, resolved, video_files, image_files,
                   report, calls>>

\* Lines 1165-1221: one pass of the loop over the images.
ProcessImage ==
    /\ pc = "files"
    /\ file_index >= Len(video_files)
    /\ file_index < total_files
    /\ file_index' = file_index + 1
    /\ LET ingested == process_image_with_yolo(image_files[file_index + 1 - Len(video_files)],
                                               class_names)
       IN  IF NotFrameData(ingested)
           THEN SkipFile(file_index + 1)
           ELSE AnalyzeAndSort(file_index + 1, ingested.frames, "image")
    /\ UNCHANGED <<class_names, output_folder, taxonomy, resolved, video_files, image_files,
                   report, calls>>

\* Lines 1084-1086: nothing to process.
ReturnEmpty ==
    /\ pc = "files"
    /\ total_files = 0
    /\ pc' = "returned"
    /\ UNCHANGED <<frame_data, class_names, result, pathVars, batchVars, calls>>

\* Lines 1223-1231: after both loops.
GenerateReport ==
    /\ pc = "files"
    /\ total_files > 0
    /\ file_index = total_files
    /\ report' = Some(results)
    /\ pc' = "returned"
    /\ UNCHANGED <<frame_data, class_names, result, pathVars, video_files, image_files,
                   file_index, results, errors, copied, analyzed, calls>>

NextBatch == ProcessVideo \/ ProcessImage \/ ReturnEmpty \/ GenerateReport

SpecBatch == InitBatch /\ [][NextBatch]_vars

---------------------------------------------------------------------------
(* What became of the files of the batch, read from the batch itself.      *)

\* The file taken up as number i: a video or an image.
IsVideoFile(i) == i <= Len(video_files)

ImageAt(i) == image_files[i - Len(video_files)]

\* The detector raises while file i is ingested.
DetectorRaises(i) ==
    IF IsVideoFile(i)
    THEN video_files[i].opens /\ video_files[i].raises_at \in 1..Len(video_files[i].frames)
    ELSE ImageAt(i).readable /\ ImageAt(i).raises

\* The ingestion of file i fails without the detector raising: the file
\* cannot be opened, or it is a video that yields no frame, or a video whose
\* reading stops on a failing read before its end.
IngestionFails(i) ==
    /\ ~DetectorRaises(i)
    /\ IF IsVideoFile(i)
       THEN \/ ~video_files[i].opens
            \/ video_files[i].frames = << >>
            \/ video_files[i].truncated
       ELSE ~ImageAt(i).readable

\* File i was reported and left alone: no result, no copy, no analysis.
Skipped(i) ==
    /\ \E e \in 1..Len(errors) : errors[e] = i
    /\ \A r \in 1..Len(results) : results[r].original_path # i
    /\ \A c \in copied : c.file # i
    /\ \A a \in 1..Len(analyzed) : analyzed[a].file # i

---------------------------------------------------------------------------
(* C13: every file taken up whose ingestion fails (it cannot be opened, it  *)
(* yields no frame, or its reading stops on a failing read before the end)  *)
(* is reported as skipped, has no entry in results and no copy, and is      *)
(* never handed to analyze_detections.                                      *)

C13_FailedIngestionSkipped ==
    \A i \in 1..file_index : IngestionFails(i) => Skipped(i)

---------------------------------------------------------------------------
(* C14: a file on which the detector raises during ingestion, video or      *)
(* image, is reported as skipped, and the batch goes on: no exception       *)
(* leaves process_all_files, which ends only after every file has been      *)
(* taken up and the summary report has been generated.                      *)

C14_DetectorFailureSkipped ==
    /\ \A i \in 1..file_index : DetectorRaises(i) => Skipped(i)
    /\ pc # "raised"
    /\ (pc = "returned" /\ total_files > 0)
           => (file_index = total_files /\ report = Some(results))

---------------------------------------------------------------------------
(* C15: for every image taken up that is readable and on which the         *)
(* detector does not raise, each box whose confidence lies in the unsorted  *)
(* band (IMAGE_UNSORTED_MIN_CONFIDENCE to IMAGE_UNSORTED_MAX_CONFIDENCE) is *)
(* among the detections handed to the analysis, with its confidence.        *)

BandBoxes(image) ==
    {b \in 1..Len(image.boxes) :
        /\ image.boxes[b].conf >= IMAGE_UNSORTED_MIN_CONFIDENCE
        /\ image.boxes[b].conf <= IMAGE_UNSORTED_MAX_CONFIDENCE}

C15_BandDetectionsReachAnalyzer ==
    \A i \in 1..file_index :
        (~IsVideoFile(i) /\ ImageAt(i).readable /\ ~ImageAt(i).raises)
            => \E a \in 1..Len(analyzed) :
                   /\ analyzed[a].file = i
                   /\ \A b \in BandBoxes(ImageAt(i)) :
                          \E d \in 1..Len(analyzed[a].frame_data[1].detections) :
                              analyzed[a].frame_data[1].detections[d]
                                  = Det(class_names[ImageAt(i).boxes[b].cls_id + 1],
                                        ImageAt(i).boxes[b].conf)

---------------------------------------------------------------------------
(* A series of calls of analyze_detections, on any inputs in any order.    *)

\* Largest number of calls in a series.
MaxCalls == 3

\* No frame; two frames of two species, and of one; an image; two frames
\* with a "Fox" (a KeyError under the class_names without "Fox").
CallInputs ==
    {<< >>,
     Alt(<<"Wolf">>, <<"Elk">>, 1),
     Run(<<"Wolf">>, 2),
     <<NamedFrame(<<"Fox">>)>>,
     <<NamedFrame(NoFrame), NamedFrame(<<"Fox">>)>>}

InitCalls ==
    /\ frame_data = << >>
    /\ class_names \in ClassNameMaps
    /\ pc = "call"
    /\ result = NoResult
    /\ NoPaths
    /\ NoBatch
    /\ calls = << >>

\* analysis = analyze_detections(frame_data, class_names), once more.  The
\* source assigns to nothing but its locals: the arguments are after the
\* call what they were before it.
CallAnalyze ==
    /\ Len(calls) < MaxCalls
    /\ \E frames \in CallInputs, names \in ClassNameMaps :
           /\ frame_data' = frames
           /\ class_names' = names
           /\ result' = analyze_detections(frames, names)
           /\ calls' = Append(calls, [frame_data  |-> frames,
                                      class_names |-> names,
                                      result      |-> result'])
    /\ pc' = "done"
    /\ UNCHANGED <<pathVars, batchVars>>

NextCalls == CallAnalyze

SpecCalls == InitCalls /\ [][NextCalls]_vars

---------------------------------------------------------------------------
(* C11: any two calls of a series that get the same frame sequence and the  *)
(* same class_names have the same outcome, whatever was called before or    *)
(* between them; and after a call the frame sequence and class_names are    *)
(* the ones it was given.                                                   *)

---------------------------------------------------------------------------
(* Clusters against the frames, for the claims below.  Frame index x of a  *)
(* cluster is position x + 1 of frame_data.  The formulas are stated of    *)
(* the single call; under the other specifications no call has returned.   *)

Clusters == result.value.clusters

\* The number of empty frames between the non-empty frames j and i, j the
\* nearest one before i.
EmptyBetween(j, i) == i - j - 1

\* The cluster c covers the frame at position i.
Covers(c, i) == c.start <= i - 1 /\ i - 1 <= c.end

---------------------------------------------------------------------------
(* C21: two neighbouring non-empty frames of the same dominant species with *)
(* fewer than CONSECUTIVE_EMPTY_FRAMES empty frames between them lie in one *)
(* cluster; where CONSECUTIVE_EMPTY_FRAMES or more empty frames lie between *)
(* two neighbours, a cluster ends at the earlier one (the last non-empty    *)
(* frame before the run) and another starts at the later one, also when the *)
(* species is the same; and the last non-empty frame is the end of a        *)
(* cluster, be it closed by an empty run or still open after the last frame.*)

C21_GapTolerance ==
    (CallReturned /\ IsVideo) =>
        /\ \A i \in NonEmptyFrames :
               LET j == LastNonEmptyUpTo(i - 1)
               IN  /\ (j > 0 /\ FrameDominant(j) = FrameDominant(i)
                             /\ EmptyBetween(j, i) < CONSECUTIVE_EMPTY_FRAMES)
                          => \E c \in 1..Len(Clusters) :
                                 Covers(Clusters[c], j) /\ Covers(Clusters[c], i)
                   /\ (j > 0 /\ EmptyBetween(j, i) >= CONSECUTIVE_EMPTY_FRAMES)
                          => /\ \E c \in 1..Len(Clusters) : Clusters[c].end = j - 1
                             /\ \E c \in 1..Len(Clusters) : Clusters[c].start = i - 1
                             /\ ~\E c \in 1..Len(Clusters) :
                                    Covers(Clusters[c], j) /\ Covers(Clusters[c], i)
        /\ NonEmptyFrames # {} =>
               \E c \in 1..Len(Clusters) :
                   Clusters[c].end = LastNonEmptyUpTo(Len(frame_data)) - 1

\* A returned call on a video in which two neighbours of the same species
\* have exactly CONSECUTIVE_EMPTY_FRAMES empty frames between them and lie in
\* two clusters of that species, and whose last frames are empty.
C21_Witness ==
    /\ CallReturned /\ IsVideo
    /\ \E i \in NonEmptyFrames :
           LET j == LastNonEmptyUpTo(i - 1)
           IN  /\ j > 0
               /\ FrameDominant(j) = FrameDominant(i)
               /\ EmptyBetween(j, i) = CONSECUTIVE_EMPTY_FRAMES
    /\ Len(Clusters) = 2
    /\ Clusters[1].species = Clusters[2].species
    /\ frame_data[Len(frame_data)].detections = << >>

---------------------------------------------------------------------------
(* C22: on the video path species_counts counts every detection: the count *)
(* of a species is the number of its detections in all frames and the       *)
(* counts add up to the number of detections; species_percentages has       *)
(* exactly the species with a detection as keys, each with its count        *)
(* divided by that number, and its values add up to 1 when there is a       *)
(* detection.                                                               *)

\* The sum of the fractions d[1..n].v, as a fraction.
RECURSIVE SumOfShares(_, _)
SumOfShares(d, n) ==
    IF n = 0 THEN Ratio(0, 1)
    ELSE LET rest == SumOfShares(d, n - 1)
         IN  Ratio(rest.num * d[n].v.den + d[n].v.num * rest.den, rest.den * d[n].v.den)

C22_CountsPerDetection ==
    (CallReturned /\ ~IsImage) =>
        LET species_counts == result.value.species_counts
            species_percentages == result.value.species_percentages
        IN  /\ \A j \in 1..Len(species_counts) :
                   species_counts[j].v = CountOf(species_counts[j].k)
            /\ SumValues(species_counts) = TotalCount
            /\ Range(DictKeys(species_percentages)) = NamesSeen
            /\ \A s \in NamesSeen :
                   DictGet(species_percentages, s) = Ratio(CountOf(s), TotalCount)
            /\ TotalCount > 0 =>
                   SumOfShares(species_percentages, Len(species_percentages)) = Ratio(1, 1)

\* A returned video call with a frame that holds two detections of one
\* species, and with a second species.
C22_Witness ==
    /\ CallReturned /\ IsVideo
    /\ \E s \in NamesSeen : CountOf(s) > Cardinality(FramesWith(s))
    /\ Cardinality(NamesSeen) >= 2
    /\ Len(result.value.species_percentages) >= 2

---------------------------------------------------------------------------
(* C23: the dominant species of a non-empty frame, as the clusters show it, *)
(* is the species with the most detections in the frame and, among species  *)
(* with equally many, the one whose first detection comes first in the      *)
(* frame, whatever the order of class_names: every cluster has the dominant *)
(* species of the frame it starts at, and every non-empty frame lies in a   *)
(* cluster of its dominant species.                                         *)

C23_FrameDominant ==
    (CallReturned /\ IsVideo) =>
        /\ \A c \in 1..Len(Clusters) :
               /\ Clusters[c].start + 1 \in NonEmptyFrames
               /\ Clusters[c].species = Some(FrameDominant(Clusters[c].start + 1))
        /\ \A i \in NonEmptyFrames :
               \E c \in 1..Len(Clusters) :
                   /\ Covers(Clusters[c], i)
                   /\ Clusters[c].species = Some(FrameDominant(i))

\* A returned video call with a frame in which two species have equally
\* many detections, the first of them named later in class_names, and which
\* starts a cluster of that species.
C23_Witness ==
    /\ CallReturned /\ IsVideo
    /\ class_names = <<"Wolf", "Fox", "Elk">>
    /\ \E c \in 1..Len(Clusters) :
           LET detections == frame_data[Clusters[c].start + 1].detections
           IN  /\ Len(detections) = 2
               /\ detections[1].class_name = "Fox"
               /\ detections[2].class_name = "Wolf"
               /\ Clusters[c].species = Some("Fox")

---------------------------------------------------------------------------
(* C24: in every video result each non-empty frame lies in exactly one      *)
(* cluster and the frame counts of the clusters add up to                   *)
(* frames_with_detections, the number of non-empty frames; this number is   *)
(* at most total_frames, and detection_rate is their quotient, between 0    *)
(* and 1.                                                                   *)

RECURSIVE FramesOfClusters(_, _)
FramesOfClusters(clusters, n) ==
    IF n = 0 THEN 0 ELSE FramesOfClusters(clusters, n - 1) + clusters[n].frames

C24_ClusterFramesSum ==
    (CallReturned /\ IsVideo) =>
        LET r == result.value
        IN  /\ r.frames_with_detections = Cardinality(NonEmptyFrames)
            /\ FramesOfClusters(r.clusters, Len(r.clusters)) = r.frames_with_detections
            /\ \A i \in NonEmptyFrames :
                   Cardinality({c \in 1..Len(r.clusters) : Covers(r.clusters[c], i)}) = 1
            /\ r.total_frames = Len(frame_data)
            /\ r.frames_with_detections <= r.total_frames
            /\ r.detection_rate = Ratio(r.frames_with_detections, r.total_frames)
            /\ RatioGeq(r.detection_rate, Ratio(0, 1))
            /\ RatioGeq(Ratio(1, 1), r.detection_rate)

\* A returned video call with empty and non-empty frames and two or more
\* clusters, one of them of several frames.
C24_Witness ==
    /\ CallReturned /\ IsVideo
    /\ result.value.frames_with_detections < result.value.total_frames
    /\ Len(Clusters) >= 2
    /\ \E c \in 1..Len(Clusters) : Clusters[c].frames >= 2

---------------------------------------------------------------------------
(* C25: in every video result each cluster has                              *)
(* 0 <= start <= end < total_frames and 1 <= frames <= end - start + 1, and *)
(* of two clusters the one that starts earlier ends before the other        *)
(* starts.                                                                  *)

C25_ClustersWellFormed ==
    (CallReturned /\ IsVideo) =>
        /\ \A c \in 1..Len(Clusters) :
               /\ 0 <= Clusters[c].start
               /\ Clusters[c].start <= Clusters[c].end
               /\ Clusters[c].end < result.value.total_frames
               /\ 1 <= Clusters[c].frames
               /\ Clusters[c].frames <= Clusters[c].end - Clusters[c].start + 1
        /\ \A a, b \in 1..Len(Clusters) :
               a # b => \/ Clusters[a].end < Clusters[b].start
                        \/ Clusters[b].end < Clusters[a].start

\* A returned video call with a cluster closed by a change of species right
\* before the next cluster, a cluster with an empty frame inside (fewer
\* frames than its range), and a cluster that ends at the last frame.
C25_Witness ==
    /\ CallReturned /\ IsVideo
    /\ \E a, b \in 1..Len(Clusters) : Clusters[a].end + 1 = Clusters[b].start
    /\ \E c \in 1..Len(Clusters) :
           Clusters[c].frames < Clusters[c].end - Clusters[c].start + 1
    /\ \E c \in 1..Len(Clusters) : Clusters[c].end = result.value.total_frames - 1

---------------------------------------------------------------------------
(* C26: in every video result the start frame and the end frame of each     *)
(* cluster are non-empty frames whose dominant species is the species of    *)
(* the cluster.                                                             *)

C26_ClusterEndsNonEmpty ==
    (CallReturned /\ IsVideo) =>
        \A c \in 1..Len(Clusters) :
            /\ Clusters[c].start + 1 \in NonEmptyFrames
            /\ Clusters[c].species = Some(FrameDominant(Clusters[c].start + 1))
            /\ Clusters[c].end + 1 \in NonEmptyFrames
            /\ Clusters[c].species = Some(FrameDominant(Clusters[c].end + 1))

---------------------------------------------------------------------------
(* C27: in every video result with a non-empty frame species_transitions is *)
(* at most the number of clusters minus one, and equal to it when no two    *)
(* neighbouring non-empty frames have CONSECUTIVE_EMPTY_FRAMES or more      *)
(* empty frames between them; without a non-empty frame both are 0.         *)

\* Two neighbouring non-empty frames are separated by a run of empty frames
\* that reaches CONSECUTIVE_EMPTY_FRAMES.
LongGap ==
    \E i \in NonEmptyFrames :
        LET j == LastNonEmptyUpTo(i - 1)
        IN  j > 0 /\ EmptyBetween(j, i) >= CONSECUTIVE_EMPTY_FRAMES

C27_TransitionsBelowClusters ==
    (CallReturned /\ IsVideo) =>
        /\ NonEmptyFrames # {} =>
               /\ result.value.species_transitions <= Len(Clusters) - 1
               /\ ~LongGap => result.value.species_transitions = Len(Clusters) - 1
        /\ NonEmptyFrames = {} =>
               result.value.species_transitions = 0 /\ Len(Clusters) = 0

\* A returned call on a video with a long gap and fewer transitions than
\* clusters minus one.
C27_Witness ==
    /\ CallReturned /\ IsVideo
    /\ LongGap
    /\ result.value.species_transitions < Len(Clusters) - 1

\* A returned call on a video without a long gap but with short gaps, where
\* the transitions are the clusters minus one.
C27_WitnessEqual ==
    /\ CallReturned /\ IsVideo
    /\ ~LongGap
    /\ \E i \in NonEmptyFrames : LastNonEmptyUpTo(i - 1) \notin {0, i - 1}
    /\ result.value.species_transitions >= 1
    /\ result.value.species_transitions = Len(Clusters) - 1

---------------------------------------------------------------------------
(* C28: every returned classification is Unsorted, No_Animal or the class   *)
(* name of a species with a detection in the input; a video is classified   *)
(* as a species only when it has a non-empty frame and that species is the  *)
(* only one whose share of the detections reaches                           *)
(* DOMINANT_SPECIES_THRESHOLD.                                              *)

SpeciesLabel == Label \notin {"Unsorted", "No_Animal"}

C28_LabelRange ==
    CallReturned =>
        /\ Label \in {"Unsorted", "No_Animal"} \cup NamesSeen
        /\ (IsVideo /\ SpeciesLabel) =>
               /\ NonEmptyFrames # {}
               /\ result.value.frames_with_detections > 0
               /\ ShareAtThreshold(Label)
               /\ \A s \in NamesSeen \ {Label} : ~ShareAtThreshold(s)

\* A video classified as a species although another species was detected too.
C28_Witness ==
    /\ CallReturned /\ IsVideo
    /\ SpeciesLabel
    /\ Cardinality(NamesSeen) >= 2

\* An image classified as a species although another species was detected.
C28_WitnessImage ==
    /\ CallReturned /\ IsImage
    /\ SpeciesLabel
    /\ Cardinality(NamesSeen) >= 2

---------------------------------------------------------------------------
(* C29: analysing the frames of a video in another order gives the same     *)
(* total_frames, frames_with_detections, detection_rate, species_counts,    *)
(* species_percentages and species_frame_percentages, and a classification  *)
(* that differs from the original one only when the too-many-transitions    *)
(* rule holds for one of the two orders.                                    *)

\* The frames in the order p, a permutation of their positions.
Permute(frames, p) == [j \in 1..Len(frames) |-> frames[p[j]]]

AllPermutations(n) ==
    {p \in [1..n -> 1..n] : \A a, b \in 1..n : a # b => p[a] # p[b]}

Reversal(n) == [j \in 1..n |-> n + 1 - j]

Rotation(n, k) == [j \in 1..n |-> ((j - 1 + k) % n) + 1]

SwapFirstTwo(n) == [j \in 1..n |-> IF j = 1 THEN 2 ELSE IF j = 2 THEN 1 ELSE j]

\* The odd positions, then the even ones.
Riffle(n) ==
    LET h == (n + 1) \div 2
    IN  [j \in 1..n |-> IF j <= h THEN 2 * j - 1 ELSE 2 * (j - h)]

\* Every order of a short video; five orders of a longer one.
FramePermutations(n) ==
    IF n <= MaxShortLen THEN AllPermutations(n)
    ELSE {Reversal(n), Rotation(n, 1), Rotation(n, n \div 2), SwapFirstTwo(n), Riffle(n)}

\* Two dicts with the same keys and values, in whatever order.
SameDict(a, b) == Range(a) = Range(b)

\* The transitions rule for a count of transitions of the frames in some order.
TransitionsRule(species_transitions) ==
    /\ species_transitions > MAX_SPECIES_TRANSITIONS
    /\ Cardinality(SignificantSeen) > 1

\* The result for the frames in the order p.
Permuted(p) == analyze_detections(Permute(frame_data, p), class_names)

C29_OrderConfinedToTransitions ==
    (Done /\ IsVideo) =>
        \A p \in FramePermutations(Len(frame_data)) :
            LET other == Permuted(p)
            IN  /\ other.status = result.status
                /\ CallReturned =>
                       /\ other.value.total_frames = result.value.total_frames
                       /\ other.value.frames_with_detections
                              = result.value.frames_with_detections
                       /\ other.value.detection_rate = result.value.detection_rate
                       /\ SameDict(other.value.species_counts,
                                   result.value.species_counts)
                       /\ SameDict(other.value.species_percentages,
                                   result.value.species_percentages)
                       /\ SameDict(other.value.species_frame_percentages,
                                   result.value.species_frame_percentages)
                       /\ other.value.classification # Label =>
                              \/ TransitionsRule(other.value.species_transitions)
                              \/ TransitionsRule(result.value.species_transitions)

\* A returned call on a video of which another order has another number of
\* transitions, other clusters and another classification.
C29_Witness ==
    /\ CallReturned /\ IsVideo
    /\ \E p \in FramePermutations(Len(frame_data)) :
           /\ Permuted(p).value.species_transitions # result.value.species_transitions
           /\ Permuted(p).value.clusters # Clusters
           /\ Permuted(p).value.classification # Label

---------------------------------------------------------------------------
(* C30: in a batch, an image of which two or more species are handed to the *)
(* analysis is classified as Unsorted, never as a species and never by the  *)
(* clear-winner branch; and an image is classified by the confidence-band   *)
(* rule only when the largest confidence handed to the analysis, which is   *)
(* the largest confidence of its boxes, is IMAGE_CONFIDENCE_THRESHOLD.      *)

\* The detections of file i that were handed to analyze_detections.
SurvivingOf(i) ==
    LET a == CHOOSE a \in 1..Len(analyzed) : analyzed[a].file = i
    IN  analyzed[a].frame_data[1].detections

SurvivingSpecies(i) == {SurvivingOf(i)[d].class_name : d \in 1..Len(SurvivingOf(i))}

SurvivingConfidences(i) == {SurvivingOf(i)[d].confidence : d \in 1..Len(SurvivingOf(i))}

BoxConfidences(i) == {ImageAt(i).boxes[b].conf : b \in 1..Len(ImageAt(i).boxes)}

ImageResults == {k \in 1..Len(results) : results[k].file_type = "image"}

ByBandRule(k) ==
    results[k].reason.fmt = "Confidence between unsorted range ({} between {}-{})"

ByClearWinner(k) == results[k].reason.fmt = "Clear winner: {} ({}) vs {} ({})"

C30_WitnessBand ==
    \E k \in ImageResults :
        /\ ByBandRule(k)
        /\ Cardinality(SurvivingSpecies(results[k].original_path)) = 2

\* An image with two species of which one survives, classified as that one.
C30_WitnessOneSurvives ==
    \E k \in ImageResults :
        LET i == results[k].original_path
        IN  /\ Len(ImageAt(i).boxes) = 2
            /\ Cardinality(SurvivingSpecies(i)) = 1
            /\ results[k].classification \in SurvivingSpecies(i)
====
